---- MODULE Spec2Model ----
(***************************************************************************)
(* Model of analysis.py: the COVID-19 reporting pipeline.                  *)
(*                                                                         *)
(*   load_data -> clean_data -> plot_time_series, plot_vaccination,        *)
(*   generate_choropleth, sequenced by the __main__ block.                 *)
(*                                                                         *)
(* A DataFrame is a sequence of rows (records); the field idx is the       *)
(* DataFrame index label, which pandas keeps through filtering.  A missing *)
(* input value (NaN) is the integer NaN; the float columns that clean_data *)
(* derives are fractions [n, d], with d = 0 for the IEEE specials.         *)
(*                                                                         *)
(* Two specifications:                                                     *)
(*   Spec       one run of the __main__ block                              *)
(*   SpecClean  clean_data applied to bounded tables and country lists     *)
(***************************************************************************)
EXTENDS Integers, Sequences, FiniteSets, TLC

VARIABLES
    remote,               \* what pd.read_csv(url) meets: a SourceState
    local,                \* what pd.read_csv('data/owid-covid-data.csv') meets
    csv,                  \* the rows both sources hold (local is a cached copy)
    pc,                   \* position in the __main__ block (index into Stages)
    exc,                  \* the exception that ended the run, "" for none
    output_dir,           \* whether the directory output/ exists
    names,                \* the names bound so far among the pipeline's tables
    countries,            \* the countries argument of clean_data
    raw_data,             \* raw_data / the df argument of clean_data
    cleaned_data,         \* cleaned_data / the table clean_data returned
    available_countries,  \* cleaned_data['location'].unique().tolist()
    recleaned,            \* clean_data applied to its own output
    files,                \* the artifacts written under output/
    ts_lines,             \* what plot_time_series drew, one entry per country
    vax_lines,            \* what plot_vaccination drew, one entry per country
    choropleth_rows       \* latest_global, the rows generate_choropleth mapped

vars == <<remote, local, csv, pc, exc, output_dir, names, countries, raw_data,
          cleaned_data, available_countries, recleaned, files, ts_lines,
          vax_lines, choropleth_rows>>

\* ------------------------------------------------------------------ bounds

\* The longest table drawn as an input.
MaxRows == 3

\* ------------------------------------------------------------- small tools

Range(s) == {s[i] : i \in DOMAIN s}

Max(S) == CHOOSE x \in S : \A y \in S : y <= x

RECURSIVE GCD(_, _)
GCD(a, b) == IF b = 0 THEN a ELSE GCD(b, a % b)

\* All tables of at most n rows over the row set R, indexed as read_csv does
\* (a RangeIndex 0, 1, 2, ...).
TablesOver(R, n) ==
    LET Bare == UNION {[1..k -> R] : k \in 0..n}
    IN  {[i \in DOMAIN t |-> [idx |-> i - 1] @@ t[i]] : t \in Bare}

\* ------------------------------------------------------------ float values

\* A missing value in an input column.
NaN == -1

\* Results of float division: n/d in lowest terms; 0/0 is NaN, 1/0 is +inf.
FNaN == [n |-> 0, d |-> 0]
FInf == [n |-> 1, d |-> 0]
Frac(a, b) == LET g == GCD(a, b) IN [n |-> a \div g, d |-> b \div g]

\* Series / Series on float64 columns: NaN propagates, x/0 is inf, 0/0 is NaN;
\* pandas raises no ZeroDivisionError.
Div(a, b) ==
    IF a = NaN \/ b = NaN THEN FNaN
    ELSE IF b = 0 THEN (IF a = 0 THEN FNaN ELSE FInf)
    ELSE Frac(a, b)

\* Series * k for a positive constant k.
Scale(f, k) == IF f.d = 0 THEN f ELSE Frac(f.n * k, f.d)

\* --------------------------------------------------------------- clean_data

\* The countries argument: None is [given |-> FALSE], a list is given.
None == [given |-> FALSE, list |-> <<>>]
List(l) == [given |-> TRUE, list |-> l]

DefaultCountries ==
    <<"United States", "India", "Brazil", "Germany", "Kenya", "South Africa">>

\* Mutant: the default applies to None alone (if countries is None).
EffectiveCountriesNoneOnly(c) == IF ~c.given THEN DefaultCountries ELSE c.list

\* if not countries: countries = [...]   (None and the empty list are falsy)
EffectiveCountries(c) ==
    IF ~c.given \/ c.list = <<>> THEN DefaultCountries ELSE c.list

\* Mutant: the mask is computed and not applied.
FilterKeepsAll(df, cs) == df

\* Mutant: the rows are gathered country by country, in the order of the list.
RECURSIVE FilterInListOrder(_, _)
FilterInListOrder(df, cs) ==
    IF cs = <<>> THEN <<>>
    ELSE LET first(r) == r.location = Head(cs)
             rest(r)  == r.location # Head(cs)
         IN  SelectSeq(df, first) \o FilterInListOrder(SelectSeq(df, rest), Tail(cs))

\* df[df['location'].isin(countries)]: a boolean mask, rows stay in source order.
FilterCountries(df, cs) ==
    LET isin(r) == r.location \in Range(cs)
    IN  SelectSeq(df, isin)

critical_cols == <<"total_cases", "total_deaths", "total_vaccinations", "population">>

\* Mutant: how='any', a row goes when either column is missing.
DropAnyAbsent(df) ==
    LET keep(r) == \A i \in 1..2 : r[critical_cols[i]] # NaN
    IN  SelectSeq(df, keep)

\* dropna(subset=critical_cols[:2], how='all'): a row goes when every column of
\* the subset is missing.
DropBothAbsent(df) ==
    LET keep(r) == ~(\A i \in 1..2 : r[critical_cols[i]] = NaN)
    IN  SelectSeq(df, keep)

\* ffill of one column within each location group: walking the rows in table
\* order, a missing value takes the last value seen for the row's location.
RECURSIVE Ffill(_, _, _)
Ffill(t, col, last) ==
    IF t = <<>> THEN <<>>
    ELSE LET r == Head(t)
             v == IF r[col] # NaN THEN r[col] ELSE last[r.location]
         IN  <<v>> \o Ffill(Tail(t), col, [last EXCEPT ![r.location] = v])

\* Mutant: ffill without the groupby, the last value of any location is taken.
RECURSIVE FfillAcross(_, _, _)
FfillAcross(t, col, last) ==
    IF t = <<>> THEN <<>>
    ELSE LET v == IF Head(t)[col] # NaN THEN Head(t)[col] ELSE last
         IN  <<v>> \o FfillAcross(Tail(t), col, v)

FfillIgnoringLocation(df, col) == FfillAcross(df, col, NaN)

\* groupby('location')[col].fillna(method='ffill')
GroupFfill(df, col) ==
    Ffill(df, col, [l \in {r.location : r \in Range(df)} |-> NaN])

\* The derived columns of one row, from its filled values.
Derive(idx, location, date, tc, td, tv, pop) ==
    [idx |-> idx, location |-> location, date |-> date,
     total_cases |-> tc, total_deaths |-> td,
     total_vaccinations |-> tv, population |-> pop,
     death_rate |-> Div(td, tc),
     cases_per_million |-> Scale(Div(tc, pop), 1000000),
     vaccination_per_hundred |-> Scale(Div(tv, pop), 100)]

clean_data(df, c) ==
    LET kept == DropBothAbsent(FilterCountries(df, EffectiveCountries(c)))
        tc   == GroupFfill(kept, "total_cases")
        td   == GroupFfill(kept, "total_deaths")
        tv   == GroupFfill(kept, "total_vaccinations")
        pop  == GroupFfill(kept, "population")
    IN  [i \in DOMAIN kept |->
            Derive(kept[i].idx, kept[i].location, kept[i].date,
                   tc[i], td[i], tv[i], pop[i])]

\* Series.unique().tolist(): the distinct values in order of first appearance.
RECURSIVE Unique(_)
Unique(s) ==
    IF s = <<>> THEN <<>>
    ELSE LET init == Unique(SubSeq(s, 1, Len(s) - 1))
             x    == s[Len(s)]
         IN  IF x \in Range(init) THEN init ELSE Append(init, x)

Locations(df) == [i \in DOMAIN df |-> df[i].location]

\* ---------------------------------------------------------------- load_data

\* A source is "ok" (read_csv returns the dataset), "down" (read_csv raises:
\* no network, no file, a parse error) or "undated" (read_csv returns a table
\* whose date column is missing or cannot be parsed).
SourceState == {"ok", "down", "undated"}

\* pd.read_csv(source)
read_csv(source, rows) ==
    [ok |-> source # "down", dated |-> source = "ok", df |-> rows]

\* pd.to_datetime on one ISO-8601 string: the day number since 1970-01-01.
to_datetime(str) ==
    CASE str = "2020-01-01" -> 18262
      [] str = "2023-01-01" -> 19358

\* df['date'] = pd.to_datetime(df['date'])
ParseDates(df) == [i \in DOMAIN df |-> [df[i] EXCEPT !.date = to_datetime(@)]]

\* load_data(): the remote read is inside the try, the local read is in the
\* except branch, the date conversion follows the try statement.
load_data(rem, loc, rows) ==
    LET first == read_csv(rem, rows)
        got   == IF first.ok THEN first ELSE read_csv(loc, rows)
    IN  IF ~got.ok THEN [raised |-> "read_csv", df |-> <<>>]
        ELSE IF ~got.dated THEN [raised |-> "to_datetime", df |-> <<>>]
        ELSE [raised |-> "", df |-> ParseDates(got.df)]

\* ---------------------------------------------------------------- renderers

\* df[df['location'] == country]
CountryData(df, country) ==
    LET same(r) == r.location = country
    IN  SelectSeq(df, same)

\* plot_time_series: per country, the rows whose columns the four panels plot.
plot_time_series(df, cs) ==
    [i \in DOMAIN cs |-> [label |-> cs[i], data |-> CountryData(df, cs[i])]]

\* plot_vaccination: per country, the rows left by
\* dropna(subset=['total_vaccinations']) and by
\* dropna(subset=['vaccination_per_hundred']).
plot_vaccination(df, cs) ==
    LET hasV(r) == r.total_vaccinations # NaN
        hasP(r) == r.vaccination_per_hundred # FNaN
    IN  [i \in DOMAIN cs |->
            [label |-> cs[i],
             total |-> SelectSeq(CountryData(df, cs[i]), hasV),
             per_hundred |-> SelectSeq(CountryData(df, cs[i]), hasP)]]

\* generate_choropleth: latest_global = df[df['date'] == df['date'].max()];
\* the max of an empty column is NaT, which no row equals.
generate_choropleth(df) ==
    IF df = <<>> THEN <<>>
    ELSE LET latest_date == Max({r.date : r \in Range(df)})
             latest(r)   == r.date = latest_date
         IN  SelectSeq(df, latest)

\* ----------------------------------------------------------------- __main__

\* Mutant: the map, which needs raw_data alone, is drawn before the cleaning.
StagesChoroplethBeforeClean ==
    <<"makedirs", "load_data", "generate_choropleth", "clean_data",
      "available_countries", "plot_time_series", "plot_vaccination", "done">>

\* The statements of the __main__ block, in program order.
Stages ==
    <<"makedirs", "load_data", "clean_data", "available_countries",
      "plot_time_series", "plot_vaccination", "generate_choropleth", "done">>

At(stage) == exc = "" /\ pc \in DOMAIN Stages /\ Stages[pc] = stage

\* os.makedirs("output", exist_ok=True)
MakeDirs ==
    /\ At("makedirs")
    /\ output_dir' = TRUE
    /\ pc' = pc + 1
    /\ UNCHANGED <<remote, local, csv, exc, names, countries, raw_data,
                   cleaned_data, available_countries, recleaned, files,
                   ts_lines, vax_lines, choropleth_rows>>

\* raw_data = load_data(); an exception propagates and ends the run.
LoadData ==
    /\ At("load_data")
    /\ LET res == load_data(remote, local, csv)
       IN  IF res.raised = ""
           THEN /\ raw_data' = res.df
                /\ names' = names \cup {"raw_data"}
                /\ pc' = pc + 1
                /\ exc' = exc
           ELSE /\ exc' = res.raised
                /\ UNCHANGED <<raw_data, names, pc>>
    /\ UNCHANGED <<remote, local, csv, output_dir, countries, cleaned_data,
                   available_countries, recleaned, files, ts_lines, vax_lines,
                   choropleth_rows>>

\* cleaned_data = clean_data(raw_data)
CleanData ==
    /\ At("clean_data")
    /\ cleaned_data' = clean_data(raw_data, countries)
    /\ names' = names \cup {"cleaned_data"}
    /\ pc' = pc + 1
    /\ UNCHANGED <<remote, local, csv, exc, output_dir, countries, raw_data,
                   available_countries, recleaned, files, ts_lines, vax_lines,
                   choropleth_rows>>

\* Mutant: the renderers' list is the requested list.
AvailableCountriesRequested ==
    /\ At("available_countries")
    /\ available_countries' = EffectiveCountries(countries)
    /\ names' = names \cup {"available_countries"}
    /\ pc' = pc + 1
    /\ UNCHANGED <<remote, local, csv, exc, output_dir, countries, raw_data,
                   cleaned_data, recleaned, files, ts_lines, vax_lines,
                   choropleth_rows>>

\* available_countries = cleaned_data['location'].unique().tolist()
AvailableCountries ==
    /\ At("available_countries")
    /\ available_countries' = Unique(Locations(cleaned_data))
    /\ names' = names \cup {"available_countries"}
    /\ pc' = pc + 1
    /\ UNCHANGED <<remote, local, csv, exc, output_dir, countries, raw_data,
                   cleaned_data, recleaned, files, ts_lines, vax_lines,
                   choropleth_rows>>

\* plot_time_series(cleaned_data, available_countries); plt.savefig raises
\* when output/ does not exist.
PlotTimeSeries ==
    /\ At("plot_time_series")
    /\ IF output_dir
       THEN /\ ts_lines' = plot_time_series(cleaned_data, available_countries)
            /\ files' = files \cup {"output/time_series.png"}
            /\ pc' = pc + 1
            /\ exc' = exc
       ELSE /\ exc' = "savefig"
            /\ UNCHANGED <<ts_lines, files, pc>>
    /\ UNCHANGED <<remote, local, csv, output_dir, names, countries, raw_data,
                   cleaned_data, available_countries, recleaned, vax_lines,
                   choropleth_rows>>

\* plot_vaccination(cleaned_data, available_countries)
PlotVaccination ==
    /\ At("plot_vaccination")
    /\ IF output_dir
       THEN /\ vax_lines' = plot_vaccination(cleaned_data, available_countries)
            /\ files' = files \cup {"output/vaccination.png"}
            /\ pc' = pc + 1
            /\ exc' = exc
       ELSE /\ exc' = "savefig"
            /\ UNCHANGED <<vax_lines, files, pc>>
    /\ UNCHANGED <<remote, local, csv, output_dir, names, countries, raw_data,
                   cleaned_data, available_countries, recleaned, ts_lines,
                   choropleth_rows>>

\* Mutant: the map is drawn from the cleaned subset.
GenerateChoroplethOfCleaned ==
    /\ At("generate_choropleth")
    /\ choropleth_rows' = generate_choropleth(cleaned_data)
    /\ files' = files \cup {"output/choropleth.html"}
    /\ pc' = pc + 1
    /\ UNCHANGED <<remote, local, csv, exc, output_dir, names, countries,
                   raw_data, cleaned_data, available_countries, recleaned,
                   ts_lines, vax_lines>>

\* generate_choropleth(raw_data)
GenerateChoropleth ==
    /\ At("generate_choropleth")
    /\ IF output_dir
       THEN /\ choropleth_rows' = generate_choropleth(raw_data)
            /\ files' = files \cup {"output/choropleth.html"}
            /\ pc' = pc + 1
            /\ exc' = exc
       ELSE /\ exc' = "write_html"
            /\ UNCHANGED <<choropleth_rows, files, pc>>
    /\ UNCHANGED <<remote, local, csv, output_dir, names, countries, raw_data,
                   cleaned_data, available_countries, recleaned, ts_lines,
                   vax_lines>>

\* The closing banner and manifest; the process exits 0.
Finish ==
    /\ At("done")
    /\ pc' = pc + 1
    /\ UNCHANGED <<remote, local, csv, exc, output_dir, names, countries,
                   raw_data, cleaned_data, available_countries, recleaned,
                   files, ts_lines, vax_lines, choropleth_rows>>

\* Rows a source file may hold: the date column is still text.
FileRows ==
    [location : {"Kenya", "France"}, date : {"2020-01-01", "2023-01-01"},
     total_cases : {NaN, 1}, total_deaths : {NaN},
     total_vaccinations : {NaN}, population : {5}]

Init ==
    /\ remote \in SourceState
    /\ local \in SourceState
    /\ csv \in TablesOver(FileRows, MaxRows)
    /\ pc = 1
    /\ exc = ""
    /\ output_dir = FALSE
    /\ names = {}
    /\ countries = None
    /\ raw_data = <<>>
    /\ cleaned_data = <<>>
    /\ available_countries = <<>>
    /\ recleaned = <<>>
    /\ files = {}
    /\ ts_lines = <<>>
    /\ vax_lines = <<>>
    /\ choropleth_rows = <<>>

Next ==
    \/ MakeDirs
    \/ LoadData
    \/ CleanData
    \/ AvailableCountries
    \/ PlotTimeSeries
    \/ PlotVaccination
    \/ GenerateChoropleth
    \/ Finish

Spec == Init /\ [][Next]_vars

\* -------------------------------------------- clean_data on bounded inputs

\* Rows of one location that vary the case and death counts.
RowsCasesDeaths ==
    [location : {"Kenya"}, total_cases : {NaN, 0, 2},
     total_deaths : {NaN, 0, 1}, total_vaccinations : {NaN},
     population : {NaN}]

\* Rows of two locations that vary the vaccination and population columns.
RowsVaccPop ==
    [location : {"Kenya", "India"}, total_cases : {NaN, 1},
     total_deaths : {NaN}, total_vaccinations : {NaN, 1},
     population : {NaN, 2}]

\* Rows that vary the location, one of them outside the default list.
RowsLocation ==
    [location : {"Kenya", "India", "France"}, total_cases : {NaN, 1},
     total_deaths : {NaN}, total_vaccinations : {NaN}, population : {NaN}]

\* A table as load_data returns it: consecutive days from 2020-01-01 in row
\* order (the dataset is sorted by date within a location).
Dated(T) == {[i \in DOMAIN t |-> [date |-> 18262 + i - 1] @@ t[i]] : t \in T}

CountryArgs ==
    {None, List(<<>>), List(<<"Kenya">>), List(<<"France">>), List(<<"Peru">>),
     List(<<"Kenya", "India">>), List(<<"India", "Kenya">>)}

InitClean ==
    /\ \/ /\ raw_data \in Dated(TablesOver(RowsCasesDeaths, MaxRows))
          /\ countries = None
       \/ /\ raw_data \in Dated(TablesOver(RowsVaccPop, MaxRows))
          /\ countries = None
       \/ /\ raw_data \in Dated(TablesOver(RowsLocation, MaxRows))
          /\ countries \in CountryArgs
    /\ names = {"raw_data"}
    /\ remote = "ok"
    /\ local = "ok"
    /\ csv = <<>>
    /\ pc = 0
    /\ exc = ""
    /\ output_dir = FALSE
    /\ cleaned_data = <<>>
    /\ available_countries = <<>>
    /\ recleaned = <<>>
    /\ files = {}
    /\ ts_lines = <<>>
    /\ vax_lines = <<>>
    /\ choropleth_rows = <<>>

\* cleaned_data = clean_data(raw_data, countries)
CallCleanData ==
    /\ "cleaned_data" \notin names
    /\ cleaned_data' = clean_data(raw_data, countries)
    /\ names' = names \cup {"cleaned_data"}
    /\ UNCHANGED <<remote, local, csv, pc, exc, output_dir, countries, raw_data,
                   available_countries, recleaned, files, ts_lines, vax_lines,
                   choropleth_rows>>

\* cleaned_data['location'].unique().tolist()
CallUnique ==
    /\ "cleaned_data" \in names
    /\ "available_countries" \notin names
    /\ available_countries' = Unique(Locations(cleaned_data))
    /\ names' = names \cup {"available_countries"}
    /\ UNCHANGED <<remote, local, csv, pc, exc, output_dir, countries, raw_data,
                   cleaned_data, recleaned, files, ts_lines, vax_lines,
                   choropleth_rows>>

\* clean_data(cleaned_data, countries): cleaning the cleaned table again.
CallReclean ==
    /\ "available_countries" \in names
    /\ "recleaned" \notin names
    /\ recleaned' = clean_data(cleaned_data, countries)
    /\ names' = names \cup {"recleaned"}
    /\ UNCHANGED <<remote, local, csv, pc, exc, output_dir, countries, raw_data,
                   cleaned_data, available_countries, files, ts_lines,
                   vax_lines, choropleth_rows>>

NextClean == CallCleanData \/ CallUnique \/ CallReclean

SpecClean == InitClean /\ [][NextClean]_vars

\* ------------------------------------------------------------------ claims

Cleaned == "cleaned_data" \in names

\* The row of the input table that carries index label i.
Src(i) == raw_data[i + 1]

SixCountries ==
    {"United States", "India", "Brazil", "Germany", "Kenya", "South Africa"}

DefaultApplies == ~countries.given \/ countries.list = <<>>

RequestedSet == IF DefaultApplies THEN SixCountries ELSE Range(countries.list)

\* A float that is neither NaN nor an infinity.
IsNumber(f) == f.d # 0

BothAbsent(s) == s.total_cases = NaN /\ s.total_deaths = NaN

FilledFields == {"total_cases", "total_deaths", "total_vaccinations", "population"}

\* The input rows of r's location dated before r that hold a value of field f.
PriorInSource(r, f) ==
    {j \in DOMAIN raw_data :
        /\ raw_data[j].location = r.location
        /\ raw_data[j].date < r.date
        /\ raw_data[j][f] # NaN}

\* The same, among the rows that are in the cleaned table and above r in it.
PriorRetained(k, f) ==
    {j \in 1..(k - 1) :
        /\ cleaned_data[j].location = cleaned_data[k].location
        /\ Src(cleaned_data[j].idx)[f] # NaN}

\* The latest-dated row among a non-empty set J of input rows.
Nearest(J) == CHOOSE j \in J : \A i \in J : raw_data[i].date <= raw_data[j].date

\* C1 as stated: in the cleaned table a value absent in the source row equals
\* the nearest prior non-absent value of that field among all of the
\* location's source rows in date order, and stays absent when there is none;
\* a value present in the source is kept.
C1_FillFromNearestPriorSourceRow ==
    Cleaned =>
        \A k \in DOMAIN cleaned_data : \A f \in FilledFields :
            LET r == cleaned_data[k]
                s == Src(r.idx)
                P == PriorInSource(r, f)
            IN  IF s[f] # NaN THEN r[f] = s[f]
                ELSE IF P = {} THEN r[f] = NaN
                ELSE r[f] = raw_data[Nearest(P)][f]

\* C1 amended: the fill draws only on rows that are themselves in the cleaned
\* table.  A value absent in the source row equals the source value of the
\* nearest row above it in the cleaned table that has the same location and a
\* non-absent source value of that field; it stays absent when no such row
\* exists; it never comes from another location.
C1_FillFromNearestRetainedRow ==
    Cleaned =>
        \A k \in DOMAIN cleaned_data : \A f \in FilledFields :
            LET r == cleaned_data[k]
                s == Src(r.idx)
                P == PriorRetained(k, f)
            IN  IF s[f] # NaN THEN r[f] = s[f]
                ELSE IF P = {} THEN r[f] = NaN
                ELSE r[f] = Src(cleaned_data[Max(P)].idx)[f]

\* A value absent in the source was filled across a row of another location
\* that holds a value of the same field, and a leading value stayed absent.
C1_Witness ==
    /\ Cleaned
    /\ \E k \in DOMAIN cleaned_data :
          /\ k >= 3
          /\ Src(cleaned_data[k].idx).total_vaccinations = NaN
          /\ cleaned_data[k].total_vaccinations # NaN
          /\ cleaned_data[k - 1].location # cleaned_data[k].location
          /\ cleaned_data[k - 1].total_vaccinations = NaN
          /\ cleaned_data[k - 1].population # NaN
          /\ cleaned_data[k].population = NaN

\* C2 as stated: death_rate is total_deaths / total_cases when both filled
\* values are present and total_cases > 0, and is absent in every other case.
C2_DeathRateAbsentUnlessCasesPositive ==
    Cleaned =>
        \A k \in DOMAIN cleaned_data :
            LET r == cleaned_data[k]
            IN  IF r.total_cases # NaN /\ r.total_deaths # NaN /\ r.total_cases > 0
                THEN /\ IsNumber(r.death_rate)
                     /\ r.death_rate.n * r.total_cases = r.total_deaths * r.death_rate.d
                ELSE r.death_rate = FNaN

\* C3: no row whose source total_cases and total_deaths are both absent is in
\* the cleaned table; a requested row with at least one of the two present is
\* in it; cleaning the cleaned table again keeps the number of rows.
C3_DropOnSourceValuesAndIdempotent ==
    Cleaned =>
        /\ \A k \in DOMAIN cleaned_data : ~BothAbsent(Src(cleaned_data[k].idx))
        /\ \A j \in DOMAIN raw_data :
              (raw_data[j].location \in RequestedSet /\ ~BothAbsent(raw_data[j]))
                  => \E k \in DOMAIN cleaned_data : cleaned_data[k].idx = raw_data[j].idx
        /\ "recleaned" \in names => Len(recleaned) = Len(cleaned_data)

\* A row was dropped although an earlier row of its location would have filled
\* its cases, a row with only one of the two values was kept, and the cleaned
\* table was cleaned again.
C3_Witness ==
    /\ "recleaned" \in names
    /\ \E i, j \in DOMAIN raw_data :
          /\ i < j
          /\ raw_data[i].location = raw_data[j].location
          /\ raw_data[i].location \in RequestedSet
          /\ raw_data[i].total_cases # NaN
          /\ raw_data[i].total_deaths = NaN
          /\ BothAbsent(raw_data[j])
          /\ \E k \in DOMAIN cleaned_data : cleaned_data[k].idx = raw_data[i].idx
          /\ \A k \in DOMAIN cleaned_data : cleaned_data[k].idx # raw_data[j].idx

\* C4: every row of the cleaned table has a location of the requested set,
\* and with countries None or empty the set used is exactly the six default
\* countries: the locations of the cleaned table are those of the six that
\* have a source row with cases or deaths.
C4_LocationsInRequestedSet ==
    Cleaned =>
        /\ \A k \in DOMAIN cleaned_data : cleaned_data[k].location \in RequestedSet
        /\ DefaultApplies =>
              {cleaned_data[k].location : k \in DOMAIN cleaned_data}
                  = {raw_data[j].location : j \in
                        {i \in DOMAIN raw_data :
                            /\ raw_data[i].location \in SixCountries
                            /\ ~BothAbsent(raw_data[i])}}

\* clean_data was given an empty list, and a table that holds rows of a
\* default country and of a country outside the default list.
C4_Witness ==
    /\ Cleaned
    /\ countries = List(<<>>)
    /\ cleaned_data # <<>>
    /\ \E j \in DOMAIN raw_data :
          raw_data[j].location = "France" /\ raw_data[j].total_cases # NaN

\* C9: when no row of the input has a location in the requested list,
\* clean_data returns an empty table without raising, and the country list
\* derived from it is empty.
C9_NoMatchGivesEmptyTable ==
    (Cleaned /\ \A j \in DOMAIN raw_data : raw_data[j].location \notin RequestedSet)
        => /\ cleaned_data = <<>>
           /\ exc = ""
           /\ "available_countries" \in names => available_countries = <<>>

\* A non-empty table with cases was cleaned for a country it does not hold,
\* and the country list was derived.
C9_Witness ==
    /\ "available_countries" \in names
    /\ countries = List(<<"Peru">>)
    /\ \E j \in DOMAIN raw_data : raw_data[j].total_cases # NaN
    /\ cleaned_data = <<>>

\* The orderings of a country list.
Orderings(l) == {[i \in DOMAIN l |-> l[p[i]]] : p \in Permutations(DOMAIN l)}

\* C10: the rows of the cleaned table are in the relative order of the source
\* table, and every ordering of the requested list gives the same table.
C10_SourceOrderKeptForAnyListOrder ==
    Cleaned =>
        /\ \A k, l \in DOMAIN cleaned_data :
              k < l => cleaned_data[k].idx < cleaned_data[l].idx
        /\ countries.given =>
              \A p \in Orderings(countries.list) :
                  clean_data(raw_data, List(p)) = cleaned_data

\* The requested list names Kenya before India and the cleaned table holds an
\* India row above a Kenya row.
C10_Witness ==
    /\ Cleaned
    /\ countries = List(<<"Kenya", "India">>)
    /\ \E k, l \in DOMAIN cleaned_data :
          /\ k < l
          /\ cleaned_data[k].location = "India"
          /\ cleaned_data[l].location = "Kenya"

LoadFailed == exc \in {"read_csv", "to_datetime"}

\* C5 as stated: load_data fails only if both sources are unavailable:
\* whenever one of the two can deliver the dataset, no exception leaves it and
\* it returns a table with parsed dates.
C5_FailsOnlyIfBothSourcesUnavailable ==
    (remote = "ok" \/ local = "ok") =>
        /\ ~LoadFailed
        /\ pc > 2 => "raw_data" \in names

Written(f) == f \in files

LatestInRaw == Max({raw_data[j].date : j \in DOMAIN raw_data})

\* C6: generate_choropleth maps exactly the rows of the raw, unfiltered table
\* whose date is the latest date in it, and no row of an earlier date.
C6_ChoroplethShowsLatestRawRows ==
    Written("output/choropleth.html") =>
        IF raw_data = <<>> THEN choropleth_rows = <<>>
        ELSE /\ {choropleth_rows[k].idx : k \in DOMAIN choropleth_rows}
                    = {raw_data[j].idx : j \in
                          {i \in DOMAIN raw_data : raw_data[i].date = LatestInRaw}}
             /\ \A k \in DOMAIN choropleth_rows : choropleth_rows[k].date = LatestInRaw

\* The map holds a row of a country outside the cleaned subset, and the raw
\* table holds an earlier row that the map leaves out.
C6_Witness ==
    /\ Written("output/choropleth.html")
    /\ \E k \in DOMAIN choropleth_rows : choropleth_rows[k].location = "France"
    /\ \E j \in DOMAIN raw_data :
          /\ raw_data[j].date < LatestInRaw
          /\ raw_data[j].location = "Kenya"
          /\ raw_data[j].total_cases # NaN

CleanedLocations == {cleaned_data[k].location : k \in DOMAIN cleaned_data}

\* C7: the country list the renderers receive is the set of locations of the
\* cleaned table: every country received has a row there and every location
\* with a row is received.
C7_RenderersGetLocationsPresent ==
    /\ "available_countries" \in names => Range(available_countries) = CleanedLocations
    /\ Written("output/time_series.png") =>
          {ts_lines[i].label : i \in DOMAIN ts_lines} = CleanedLocations
    /\ Written("output/vaccination.png") =>
          {vax_lines[i].label : i \in DOMAIN vax_lines} = CleanedLocations

\* Both renderers ran with Kenya alone, not with the six requested countries.
C7_Witness ==
    /\ Written("output/vaccination.png")
    /\ {ts_lines[i].label : i \in DOMAIN ts_lines} = {"Kenya"}
    /\ {vax_lines[i].label : i \in DOMAIN vax_lines} = {"Kenya"}
    /\ \E j \in DOMAIN raw_data : raw_data[j].location = "France"

\* C8: the stages run in the order load_data, clean_data, renderers (time
\* series, vaccination, choropleth); output/ exists before a renderer writes;
\* after a fatal load_data no artifact is written.
C8_StagesInOrder ==
    /\ "cleaned_data" \in names => "raw_data" \in names
    /\ "available_countries" \in names => "cleaned_data" \in names
    /\ files # {} =>
          output_dir /\ {"raw_data", "cleaned_data", "available_countries"} \subseteq names
    /\ Written("output/vaccination.png") => Written("output/time_series.png")
    /\ Written("output/choropleth.html") => Written("output/vaccination.png")
    /\ LoadFailed => files = {} /\ names = {}

\* A run that reached the closing banner with the three artifacts written.
C8_Witness ==
    /\ pc = Len(Stages) + 1
    /\ files = {"output/time_series.png", "output/vaccination.png",
                "output/choropleth.html"}
    /\ cleaned_data # <<>>

====
